---- MODULE Spec2Model ----
(***************************************************************************)
(* Model of torchtnt/runner/auto_unit.py: class AutoTrainUnit.             *)
(*                                                                         *)
(* The unit is a synchronous object: a constructor that stores its         *)
(* configuration, and two handlers, train_step and on_train_epoch_end,     *)
(* that call an (external) optimizer, an (external, optional) scheduler    *)
(* and the user hooks compute_loss / update_metrics / log_metrics in a     *)
(* fixed order.  Each handler is one action.  The calls a handler makes    *)
(* are computed as a sequence (TrainStepCalls, EpochEndCalls) and their    *)
(* effects are applied, in order, to the collaborators' state.             *)
(*                                                                         *)
(* Exceptions: compute_loss (abstract, user code running the forward pass) *)
(* and loss.backward() (autograd) may raise.  update_metrics and           *)
(* log_metrics are modelled by their bodies in this file (`pass`), and     *)
(* optimizer / scheduler calls by their normal return.                     *)
(***************************************************************************)
EXTENDS Integers, Sequences, FiniteSets, TLC

\* ---------------------------------------------------------------- bounds
MaxCalls == 6
MaxFreq == 3

\* ------------------------------------------------------- value universes
None == "None"
NotGiven == "NotGiven"
NoArg == -1

Optimizers == {"optimizer"}
Schedulers == {None, "lr_scheduler"}
Intervals == {"step", "epoch"}
DeviceArgs == {None, "cuda:1"}
EnvDevices == {"cpu", "cuda:0"}
Raises == {"no", "compute_loss", "backward"}

VARIABLES
    args,                 \* the keyword arguments the constructor was called with
    optimizer,            \* self.optimizer
    lr_scheduler,         \* self.lr_scheduler
    step_lr_interval,     \* self.step_lr_interval
    device,               \* self.device
    log_frequency_steps,  \* self.log_frequency_steps
    num_steps_completed,  \* state.train_state.progress.num_steps_completed
    driver,               \* "idle" | "step_returned": position of the calling loop
    world,                \* state of the collaborators the handlers call into
    op,                   \* the last handler called: "none" | "train_step" | "on_train_epoch_end"
    raised,               \* which call of the last handler raised ("no" if it returned)
    calls,                \* the calls the last handler made, in order
    n_train_step,         \* number of train_step calls that returned
    n_raised,             \* number of train_step calls that raised
    n_epoch_end           \* number of on_train_epoch_end calls

config == <<optimizer, lr_scheduler, step_lr_interval, device, log_frequency_steps>>
vars == <<args, optimizer, lr_scheduler, step_lr_interval, device, log_frequency_steps,
          num_steps_completed, driver, world, op, raised, calls,
          n_train_step, n_raised, n_epoch_end>>

\* ------------------------------------------------------------ call events
Ev(name) == [call |-> name, step |-> NoArg, interval |-> "-"]
LogEv(step, interval) == [call |-> "log_metrics", step |-> step, interval |-> interval]

Count(seq, name) == Cardinality({i \in 1..Len(seq) : seq[i].call = name})

\* ------------------------------------------------------------ constructor
\* step_lr_interval: Literal["step", "epoch"] = "epoch"
default_step_lr_interval == "epoch"

get_device_from_env(env) == env

\* self.device = device or get_device_from_env()
init_device(a) == IF a.device # None THEN a.device ELSE get_device_from_env(a.env_device)

init_step_lr_interval(a) ==
    IF a.step_lr_interval = NotGiven THEN default_step_lr_interval ELSE a.step_lr_interval

CtorArgs ==
    [optimizer : Optimizers,
     lr_scheduler : Schedulers,
     step_lr_interval : Intervals \cup {NotGiven},
     device : DeviceArgs,
     env_device : EnvDevices,
     log_frequency_steps : 1..MaxFreq]

NoLog == [step |-> NoArg, interval |-> "-", updates |-> NoArg]

InitWorld ==
    [params |-> 0,            \* parameter updates applied by optimizer.step
     grads |-> "none",        \* "none" | "set"
     sched_steps |-> 0,       \* lr_scheduler.step calls
     metric_updates |-> 0,    \* update_metrics calls
     log_step |-> 0,          \* log_metrics(.., "step") calls
     log_epoch |-> 0,         \* log_metrics(.., "epoch") calls
     last_log |-> NoLog]      \* arguments of the last log_metrics call

Init ==
    /\ args \in CtorArgs
    /\ optimizer = args.optimizer
    /\ lr_scheduler = args.lr_scheduler
    /\ step_lr_interval = init_step_lr_interval(args)
    /\ device = init_device(args)
    /\ log_frequency_steps = args.log_frequency_steps
    /\ num_steps_completed = 0
    /\ driver = "idle"
    /\ world = InitWorld
    /\ op = "none"
    /\ raised = "no"
    /\ calls = <<>>
    /\ n_train_step = 0
    /\ n_raised = 0
    /\ n_epoch_end = 0

\* ------------------------------------------------- effects of the calls
Apply(w, e) ==
    CASE e.call = "backward" -> [w EXCEPT !.grads = "set"]
      [] e.call = "optimizer.step" -> [w EXCEPT !.params = @ + 1]
      [] e.call = "optimizer.zero_grad" -> [w EXCEPT !.grads = "none"]
      [] e.call = "lr_scheduler.step" -> [w EXCEPT !.sched_steps = @ + 1]
      [] e.call = "update_metrics" -> [w EXCEPT !.metric_updates = @ + 1]
      [] e.call = "log_metrics" ->
            [w EXCEPT !.log_step = IF e.interval = "step" THEN @ + 1 ELSE @,
                      !.log_epoch = IF e.interval = "epoch" THEN @ + 1 ELSE @,
                      !.last_log = [step |-> e.step, interval |-> e.interval,
                                    updates |-> w.params]]
      [] OTHER -> w

RECURSIVE ApplyAll(_, _)
ApplyAll(w, seq) ==
    IF seq = <<>> THEN w ELSE ApplyAll(Apply(w, Head(seq)), Tail(seq))

\* ------------------------------------------------------------- train_step
\* the scheduler stepped in train_step whatever the interval
step_lr_in_train_step_any_interval == lr_scheduler # None

\* if self.lr_scheduler and self.step_lr_interval == "step":
step_lr_in_train_step == lr_scheduler # None /\ step_lr_interval = "step"

\* the frequency test on the count before this step
log_in_train_step_before_step(step_count) == step_count % log_frequency_steps = 0

\* if (step_count + 1) % self.log_frequency_steps == 0:
log_in_train_step(step_count) == (step_count + 1) % log_frequency_steps = 0

\* self.log_metrics(state, step_count, "step")
train_step_log_call(step_count) == LogEv(step_count, "step")

\* train_step with optimizer.step ahead of the backward pass
TrainStepCalls_step_before_backward(r) ==
    IF r = "compute_loss" THEN <<Ev("copy_data_to_device"), Ev("compute_loss")>>
    ELSE IF r = "backward"
    THEN <<Ev("copy_data_to_device"), Ev("compute_loss"), Ev("backward")>>
    ELSE <<Ev("copy_data_to_device"), Ev("compute_loss"), Ev("optimizer.step"),
           Ev("backward"), Ev("optimizer.zero_grad")>>
         \o (IF step_lr_in_train_step THEN <<Ev("lr_scheduler.step")>> ELSE <<>>)
         \o <<Ev("update_metrics")>>
         \o (IF log_in_train_step(num_steps_completed)
             THEN <<train_step_log_call(num_steps_completed)>> ELSE <<>>)

\* train_step with update_metrics ahead of the backward pass
TrainStepCalls_metrics_before_backward(r) ==
    IF r = "compute_loss" THEN <<Ev("copy_data_to_device"), Ev("compute_loss")>>
    ELSE IF r = "backward"
    THEN <<Ev("copy_data_to_device"), Ev("compute_loss"), Ev("update_metrics"),
           Ev("backward")>>
    ELSE <<Ev("copy_data_to_device"), Ev("compute_loss"), Ev("update_metrics"),
           Ev("backward"), Ev("optimizer.step"), Ev("optimizer.zero_grad")>>
         \o (IF step_lr_in_train_step THEN <<Ev("lr_scheduler.step")>> ELSE <<>>)
         \o (IF log_in_train_step(num_steps_completed)
             THEN <<train_step_log_call(num_steps_completed)>> ELSE <<>>)

\* The calls train_step makes, in order; the call that raises is the last one.
TrainStepCalls(r) ==
    IF r = "compute_loss" THEN <<Ev("copy_data_to_device"), Ev("compute_loss")>>
    ELSE IF r = "backward"
    THEN <<Ev("copy_data_to_device"), Ev("compute_loss"), Ev("backward")>>
    ELSE <<Ev("copy_data_to_device"), Ev("compute_loss"), Ev("backward"),
           Ev("optimizer.step"), Ev("optimizer.zero_grad")>>
         \o (IF step_lr_in_train_step THEN <<Ev("lr_scheduler.step")>> ELSE <<>>)
         \o <<Ev("update_metrics")>>
         \o (IF log_in_train_step(num_steps_completed)
             THEN <<train_step_log_call(num_steps_completed)>> ELSE <<>>)

\* The calls of a handler that returned normally; of a handler that raised,
\* the ones before the raising call.
Returned(seq, r) == IF r = "no" THEN seq ELSE SubSeq(seq, 1, Len(seq) - 1)

train_step_body(r) ==
    /\ driver = "idle"
    /\ n_train_step + n_raised + n_epoch_end < MaxCalls
    /\ LET cs == TrainStepCalls(r)
           w == ApplyAll(world, Returned(cs, r))
       IN /\ calls' = cs
          /\ IF r = "backward"
             \* a backward pass that raises may have accumulated some gradients
             THEN \E g \in {w.grads, "set"} : world' = [w EXCEPT !.grads = g]
             ELSE world' = w
    /\ op' = "train_step"
    /\ raised' = r
    /\ driver' = IF r = "no" THEN "step_returned" ELSE "idle"
    /\ n_train_step' = IF r = "no" THEN n_train_step + 1 ELSE n_train_step
    /\ n_raised' = IF r = "no" THEN n_raised ELSE n_raised + 1
    /\ UNCHANGED n_epoch_end

\* a train_step that counts the step itself
train_step_counts_step(r) ==
    /\ train_step_body(r)
    /\ num_steps_completed' = num_steps_completed + 1
    /\ UNCHANGED <<args, config>>

\* train_step reads the progress and the configuration and assigns neither
train_step(r) ==
    /\ train_step_body(r)
    /\ UNCHANGED <<args, config, num_steps_completed>>

\* ----------------------------------------------------- on_train_epoch_end
\* if self.lr_scheduler and self.step_lr_interval == "epoch":
step_lr_in_epoch_end == lr_scheduler # None /\ step_lr_interval = "epoch"

EpochEndCalls ==
    (IF step_lr_in_epoch_end THEN <<Ev("lr_scheduler.step")>> ELSE <<>>)
    \o <<LogEv(num_steps_completed, "epoch")>>

on_train_epoch_end ==
    /\ driver = "idle"
    /\ n_train_step + n_raised + n_epoch_end < MaxCalls
    /\ calls' = EpochEndCalls
    /\ world' = ApplyAll(world, EpochEndCalls)
    /\ op' = "on_train_epoch_end"
    /\ raised' = "no"
    /\ n_epoch_end' = n_epoch_end + 1
    /\ UNCHANGED <<args, config, num_steps_completed, driver, n_train_step, n_raised>>

\* ------------------------------------------------------------- the driver
\* The training loop adds one to num_steps_completed after train_step returns.
driver_increment ==
    /\ driver = "step_returned"
    /\ num_steps_completed' = num_steps_completed + 1
    /\ driver' = "idle"
    /\ UNCHANGED <<args, config, world, op, raised, calls, n_train_step, n_raised, n_epoch_end>>

Next ==
    \/ \E r \in Raises : train_step(r)
    \/ on_train_epoch_end
    \/ driver_increment

Spec == Init /\ [][Next]_vars

TypeOK ==
    /\ args \in CtorArgs
    /\ optimizer \in Optimizers
    /\ lr_scheduler \in Schedulers
    /\ step_lr_interval \in Intervals
    /\ device \in (DeviceArgs \cup EnvDevices) \ {None}
    /\ log_frequency_steps \in 1..MaxFreq
    /\ num_steps_completed \in Nat
    /\ driver \in {"idle", "step_returned"}
    /\ op \in {"none", "train_step", "on_train_epoch_end"}
    /\ raised \in Raises

\* ------------------------------------------------------------ properties
CallNames(seq) == [i \in 1..Len(seq) |-> seq[i].call]
IsSGDCall(e) == e.call \in {"compute_loss", "backward", "optimizer.step", "optimizer.zero_grad"}
Before(seq, a, b) ==
    \A i \in 1..Len(seq) : seq[i].call = b => \E j \in 1..(i - 1) : seq[j].call = a

\* the last handler called was a train_step that returned
StepReturned == op = "train_step" /\ raised = "no"

\* C1: a train_step that returns has called compute_loss, backward,
\* optimizer.step and optimizer.zero_grad once each and in this order; and in
\* any train_step, returned or not, an optimizer.step is preceded by a
\* backward, itself preceded by a compute_loss, of the same call.
C1_SGDOrder ==
    /\ StepReturned =>
          CallNames(SelectSeq(calls, IsSGDCall)) =
             <<"compute_loss", "backward", "optimizer.step", "optimizer.zero_grad">>
    /\ \A i \in 1..Len(calls) :
          calls[i].call = "optimizer.step" =>
             \E j \in 1..(i - 1) :
                /\ calls[j].call = "backward"
                /\ \E k \in 1..(j - 1) : calls[k].call = "compute_loss"

C1_Witness == StepReturned /\ world.params >= 2 /\ n_raised >= 1

C3_LogStepIsUpdates ==
    world.last_log # NoLog => world.last_log.step = world.last_log.updates

\* C4: a train_step that returns, called with num_steps_completed = n, logs
\* with interval "step" once if (n + 1) % log_frequency_steps = 0 and not at
\* all otherwise; after N returned train_steps there have been
\* N \div log_frequency_steps such calls, each right after a parameter update
\* whose number is a multiple of log_frequency_steps.
C4_LogFrequency ==
    /\ StepReturned =>
          /\ Count(calls, "log_metrics") =
                IF n_train_step % log_frequency_steps = 0 THEN 1 ELSE 0
          /\ \A i \in 1..Len(calls) :
                calls[i].call = "log_metrics" => calls[i].interval = "step"
    /\ world.log_step = n_train_step \div log_frequency_steps
    /\ world.last_log.interval = "step" =>
          /\ world.last_log.updates >= log_frequency_steps
          /\ world.last_log.updates % log_frequency_steps = 0

C4_Witness == log_frequency_steps = 2 /\ world.log_step = 2 /\ StepReturned

\* C5: a train_step in which compute_loss or backward raises does not return,
\* calls none of optimizer.step, optimizer.zero_grad, lr_scheduler.step,
\* update_metrics, log_metrics, and leaves the parameters, the scheduler step
\* count and the metric state as they were.
C5_RaiseHasNoEffect ==
    [][n_raised' # n_raised =>
          /\ raised' \in {"compute_loss", "backward"}
          /\ n_train_step' = n_train_step
          /\ driver' = "idle"
          /\ \A i \in 1..Len(calls') :
                calls'[i].call \notin {"optimizer.step", "optimizer.zero_grad",
                                       "lr_scheduler.step", "update_metrics", "log_metrics"}
          /\ world'.params = world.params
          /\ world'.sched_steps = world.sched_steps
          /\ world'.metric_updates = world.metric_updates
          /\ world'.log_step = world.log_step
          /\ world'.log_epoch = world.log_epoch
          /\ world'.last_log = world.last_log]_vars

C5_Witness ==
    /\ op = "train_step"
    /\ raised = "backward"
    /\ world.params >= 1
    /\ world.metric_updates >= 1
    /\ world.grads = "set"

\* C6: train_step and on_train_epoch_end leave num_steps_completed and the
\* unit's configuration unchanged, and the configuration is at all times the
\* one the constructor set.
C6_HandlersOnlyRead ==
    /\ [](/\ optimizer = args.optimizer
          /\ lr_scheduler = args.lr_scheduler
          /\ step_lr_interval = init_step_lr_interval(args)
          /\ device = init_device(args)
          /\ log_frequency_steps = args.log_frequency_steps)
    /\ [][(\/ n_train_step' # n_train_step
           \/ n_raised' # n_raised
           \/ n_epoch_end' # n_epoch_end) =>
             /\ num_steps_completed' = num_steps_completed
             /\ config' = config]_vars

C6_Witness ==
    /\ n_train_step >= 2
    /\ n_epoch_end >= 1
    /\ n_raised >= 1
    /\ num_steps_completed >= 2
    /\ driver = "idle"
====
